---- MODULE Spec2Model ----
(***************************************************************************)
(* The message store (DatabaseManager, src/server.py) and the HTTP         *)
(* handler in front of it (MessageHandler, src/server.py).                 *)
(*                                                                         *)
(* The two SQLite tables are sets of rows; AUTOINCREMENT is the pair of    *)
(* counters repoSeq / msgSeq (sqlite_sequence).  created_at is an audit    *)
(* column no operation reads and is left out.  A nullable column is a set  *)
(* with at most one element ({} is NULL).  A TEXT value is a sequence of   *)
(* characters where the code edits it (content, which do_POST strips) and  *)
(* a string otherwise.  A timestamp is a natural number standing for the   *)
(* UTC isoformat() string of that instant: SQLite compares the TEXT        *)
(* column bytewise, and on such strings that order is the order of the     *)
(* instants.                                                               *)
(*                                                                         *)
(* Beside them: the GitHub API client (GitHubManager,                      *)
(* src/github_manager.py), whose requests are logged with the time on the  *)
(* clock of the call, the push script (src/push.py) and                    *)
(* GitManager.push_message (src/git_manager.py).                           *)
(***************************************************************************)
EXTENDS FiniteSets, Integers, Sequences, TLC

\* ---------------------------------------------------------------- bounds
MaxMessages == 2
MaxRepoSeq == 3

\* ------------------------------------------------------- program constants
GetLimit == 50
\* per_page of the issue listing request
PerPage == 100
\* the remaining quota below which the client waits for the reset
RateLimitLow == 10

\* ------------------------------------------------------------ input sets
Chars == {" ", "a"}
Names == {"n1", "n2"}
Urls == {"default", "https://github.com/o/r"}
Authors == {"alice"}
\* the instants the wall clock (datetime.now) can show when a post is stored
Clock == {1, 2}

\* the strings a client sends as content: empty, blank, plain, padded
Contents == {<<>>, <<" ">>, <<"a">>, <<" ", "a", " ">>}

\* An absent value of an optional argument or JSON key (Python None / missing)
None == {}
Some(x) == {x}
Get(opt) == CHOOSE x \in opt : TRUE

Min(a, b) == IF a <= b THEN a ELSE b

RECURSIVE Reverse(_)
Reverse(s) == IF s = <<>> THEN <<>> ELSE Append(Reverse(Tail(s)), Head(s))

\* ----------------------------------------------------------- str.strip()
RECURSIVE lstrip(_)
lstrip(s) == IF s # <<>> /\ Head(s) = " " THEN lstrip(Tail(s)) ELSE s

strip(s) == Reverse(lstrip(Reverse(lstrip(s))))

\* ------------------------------------------------------------------ state
VARIABLES
    repositories,   \* rows of table repositories
    repoSeq,        \* sqlite_sequence of repositories
    messages,       \* rows of table messages
    msgSeq,         \* sqlite_sequence of messages
    call,           \* the operation handled last, with its inputs
    ret,            \* what a store method returned to its caller
    responses,      \* the HTTP responses sent while handling the last request
    git,            \* the git steps run by the last operation, and their result
    tick,           \* the sync scheduler's position in its tick
    requests,       \* the requests the last operation sent to the GitHub API
    events          \* the order of what the last request handler did

vars == <<repositories, repoSeq, messages, msgSeq, call, ret, responses, git,
          tick, requests, events>>

\* ------------------------------------------------ DatabaseManager: schema
DefaultRepository ==
    [id |-> 1, name |-> "default", url |-> "default",
     last_synced |-> None, is_active |-> TRUE]

\* CREATE TABLE IF NOT EXISTS for both tables, then
\* INSERT OR IGNORE INTO repositories (id, name, url) VALUES (1,'default','default')
\* (faulty variant: the tables are dropped and created again)
_init_database_recreating(repos, seq) ==
    [repositories |-> {DefaultRepository}, seq |-> 1]

_init_database(repos, seq) ==
    IF \E r \in repos : r.id = 1 \/ r.url = "default"
    THEN [repositories |-> repos, seq |-> seq]
    ELSE [repositories |-> repos \cup {DefaultRepository},
          seq |-> IF seq < 1 THEN 1 ELSE seq]

\* ------------------------------------------- DatabaseManager.add_repository
\* INSERT OR IGNORE on UNIQUE(url).  An ignored insert still advances the
\* AUTOINCREMENT counter (SQLite reserves the rowid before the constraint
\* check), so ids of later rows skip.
\* (faulty variant: a plain INSERT, on a table without the UNIQUE constraint)
add_repository_duplicating(repos, seq, name, url) ==
    [repositories |-> repos \cup {[id |-> seq + 1, name |-> name, url |-> url,
                                   last_synced |-> None, is_active |-> TRUE]},
     seq |-> seq + 1,
     id |-> seq + 1]

add_repository(repos, seq, name, url) ==
    LET rowcount == IF \E r \in repos : r.url = url THEN 0 ELSE 1
        lastrowid == seq + 1
    IN  IF rowcount = 0
        THEN [repositories |-> repos,
              seq |-> seq + 1,
              id |-> (CHOOSE r \in repos : r.url = url).id]
        ELSE [repositories |-> repos \cup {[id |-> lastrowid, name |-> name,
                                            url |-> url, last_synced |-> None,
                                            is_active |-> TRUE]},
              seq |-> seq + 1,
              id |-> lastrowid]

\* ------------------------------------------- DatabaseManager.push_to_github
\* env: the outcome each git command would have if it were run.
\*   add, commit, push : TRUE when the command exits 0 (check=True raises
\*                       CalledProcessError otherwise)
\*   status            : "dirty"  the work tree has changes to commit
\*                       "clean"  it has none (git commit would exit 1 with
\*                                "nothing to commit")
\*                       "fail"   git status exits non-zero, printing nothing
\*                                on stdout (it is run without check=True)
\*                       "raise"  the command cannot be started
\* One environment per distinct course of the sequence.
GitRuns ==
    { [add |-> FALSE, status |-> "dirty", commit |-> TRUE, push |-> TRUE],
      [add |-> TRUE, status |-> "raise", commit |-> TRUE, push |-> TRUE],
      [add |-> TRUE, status |-> "fail", commit |-> TRUE, push |-> TRUE],
      [add |-> TRUE, status |-> "clean", commit |-> TRUE, push |-> TRUE],
      [add |-> TRUE, status |-> "dirty", commit |-> FALSE, push |-> TRUE],
      [add |-> TRUE, status |-> "dirty", commit |-> TRUE, push |-> FALSE],
      [add |-> TRUE, status |-> "dirty", commit |-> TRUE, push |-> TRUE] }

NoGit == [steps |-> <<>>, success |-> TRUE, raised |-> FALSE]

\* (faulty variant: the except clauses re-raise instead of returning False)
push_to_github_raising(env) ==
    IF ~env.add THEN [steps |-> <<"add">>, success |-> FALSE, raised |-> TRUE]
    ELSE IF env.status = "raise"
    THEN [steps |-> <<"add", "status">>, success |-> FALSE, raised |-> TRUE]
    ELSE IF env.status \in {"clean", "fail"}
    THEN \* if not status.stdout.strip(): return True, "No changes to commit"
         [steps |-> <<"add", "status">>, success |-> TRUE, raised |-> FALSE]
    ELSE IF ~env.commit
    THEN [steps |-> <<"add", "status", "commit">>, success |-> FALSE, raised |-> TRUE]
    ELSE IF ~env.push
    THEN [steps |-> <<"add", "status", "commit", "push">>, success |-> FALSE, raised |-> TRUE]
    ELSE [steps |-> <<"add", "status", "commit", "push">>, success |-> TRUE, raised |-> FALSE]

push_to_github(env) ==
    IF ~env.add THEN [steps |-> <<"add">>, success |-> FALSE, raised |-> FALSE]
    ELSE IF env.status = "raise"
    THEN [steps |-> <<"add", "status">>, success |-> FALSE, raised |-> FALSE]
    ELSE IF env.status \in {"clean", "fail"}
    THEN \* if not status.stdout.strip(): return True, "No changes to commit"
         [steps |-> <<"add", "status">>, success |-> TRUE, raised |-> FALSE]
    ELSE IF ~env.commit
    THEN [steps |-> <<"add", "status", "commit">>, success |-> FALSE, raised |-> FALSE]
    ELSE IF ~env.push
    THEN [steps |-> <<"add", "status", "commit", "push">>, success |-> FALSE, raised |-> FALSE]
    ELSE [steps |-> <<"add", "status", "commit", "push">>, success |-> TRUE, raised |-> FALSE]

\* --------------------------------------------- DatabaseManager.save_message
\* dbOk = FALSE: the INSERT fails (locked or unwritable file); nothing is
\* written and the exception is re-raised.
\* The row is committed before the push is attempted; an exception leaving
\* push_to_github would be re-raised by save_message with the row kept.
\* (faulty variant: the row id is bound to the repository_id column)
LocalMessage_misbound(id, repository_id, content, timestamp, author) ==
    [id |-> id, repository_id |-> id + 1, content |-> content,
     timestamp |-> timestamp, author |-> author, url |-> None,
     message_type |-> "local", parent_title |-> None]

LocalMessage(id, repository_id, content, timestamp, author) ==
    [id |-> id, repository_id |-> repository_id, content |-> content,
     timestamp |-> timestamp, author |-> author, url |-> None,
     message_type |-> "local", parent_title |-> None]

\* GitHubManager.__init__: ValueError when GITHUB_TOKEN is not set.
\* DatabaseManager.__init__ has run _init_database by then.
DatabaseManager(repos, seq, token) ==
    [repositories |-> _init_database(repos, seq).repositories,
     seq |-> _init_database(repos, seq).seq,
     raised |-> ~token]

\* (faulty variant: a post equal to a stored one is not inserted again)
save_message_dedup(msgs, seq, repository_id, content, timestamp, author, env, dbOk) ==
    IF ~dbOk
    THEN [messages |-> msgs, seq |-> seq, raised |-> TRUE, id |-> 0, git |-> NoGit]
    ELSE IF \E m \in msgs : m.content = content /\ m.author = author
    THEN [messages |-> msgs, seq |-> seq, raised |-> FALSE,
          id |-> (CHOOSE m \in msgs : m.content = content /\ m.author = author).id,
          git |-> push_to_github(env)]
    ELSE [messages |-> msgs \cup {LocalMessage(seq + 1, repository_id, content,
                                                timestamp, author)},
          seq |-> seq + 1, raised |-> FALSE, id |-> seq + 1,
          git |-> push_to_github(env)]

save_message(msgs, seq, repository_id, content, timestamp, author, env, dbOk) ==
    IF ~dbOk
    THEN [messages |-> msgs, seq |-> seq, raised |-> TRUE, id |-> 0, git |-> NoGit]
    ELSE LET message_id == seq + 1
             pushed == push_to_github(env)
         IN  [messages |-> msgs \cup {LocalMessage(message_id, repository_id,
                                                   content, timestamp, author)},
              seq |-> message_id,
              raised |-> pushed.raised,
              id |-> message_id,
              git |-> pushed]

\* --------------------------------------------- DatabaseManager.get_messages
\* SELECT m.*, r.name FROM messages m JOIN repositories r ON m.repository_id = r.id
Joined(repos, msgs) == {m \in msgs : \E r \in repos : r.id = m.repository_id}

\* The dictionary built for one row (lines 195-201): five keys.
MessageDict(repos, m) ==
    [id |-> m.id, content |-> m.content, timestamp |-> m.timestamp,
     author |-> m.author,
     repository |-> (CHOOSE r \in repos : r.id = m.repository_id).name]

\* ORDER BY m.timestamp <dir>: every arrangement of the rows that is sorted
\* on timestamp.  The statement names no second key, so SQL leaves the
\* relative order of rows with equal timestamps to the engine.
RECURSIVE Orders(_, _)
Orders(S, dir) ==
    IF S = {} THEN {<<>>}
    ELSE LET firsts == {m \in S : \A n \in S :
                            IF dir = "ASC" THEN m.timestamp <= n.timestamp
                                           ELSE m.timestamp >= n.timestamp}
         IN  UNION {{<<m>> \o t : t \in Orders(S \ {m}, dir)} : m \in firsts}

\* LIMIT is appended when limit is not None, OFFSET when offset is non-zero.
Paged(s, limit, offset) ==
    LET last == IF limit = None THEN Len(s) ELSE Min(Len(s), offset + Get(limit))
    IN  IF offset + 1 > last THEN <<>> ELSE SubSeq(s, offset + 1, last)

\* "... OFFSET n" without LIMIT, and any ORDER BY direction other than ASC
\* or DESC, are SQL syntax errors: execute() raises and get_messages re-raises.
\* (faulty variant: sort_order is not put into the statement)
get_messages_ignoring_order(repos, msgs, limit, offset, sort_order) ==
    [raised |-> FALSE,
     results |-> {Paged([i \in 1..Len(s) |-> MessageDict(repos, s[i])], limit, offset) :
                    s \in Orders(Joined(repos, msgs), "DESC")}]

get_messages(repos, msgs, limit, offset, sort_order) ==
    IF sort_order \notin {"ASC", "DESC"} \/ (limit = None /\ offset # 0)
    THEN [raised |-> TRUE, results |-> {}]
    ELSE [raised |-> FALSE,
          results |-> {Paged([i \in 1..Len(s) |-> MessageDict(repos, s[i])],
                             limit, offset) :
                         s \in Orders(Joined(repos, msgs), sort_order)}]

\* ------------------------------------------ DatabaseManager.get_repositories
get_repositories(repos, active_only) ==
    IF active_only THEN {r \in repos : r.is_active} ELSE repos

\* ----------------------------------------- DatabaseManager.get_message_count
\* SELECT COUNT(*) FROM messages WHERE 1=1 [AND repository_id IN (...)]
\* [AND message_type IN (...)].  A filter is None or a list, kept here as
\* the set of its elements; "if repository_ids:" skips None and the empty
\* list alike.  The repositories table is not joined.
Filtering(filter) == filter # None /\ Get(filter) # {}

get_message_count(msgs, repository_ids, message_types) ==
    Cardinality({m \in msgs :
        /\ Filtering(repository_ids) => m.repository_id \in Get(repository_ids)
        /\ Filtering(message_types) => m.message_type \in Get(message_types)})

\* ------------------------------------------------------------ HTTP plumbing
NoFields == [k \in {} |-> ""]

JsonObject(fields) == [kind |-> "object", fields |-> fields, items |-> <<>>]
JsonList(items) == [kind |-> "list", fields |-> NoFields, items |-> items]
FileBody == [kind |-> "file", fields |-> NoFields, items |-> <<>>]

\* MessageHandler.send_json_response / send_error / serve_file: one response
Response(status, body) == [status |-> status, body |-> body]

InternalServerError == Response(500, JsonObject([error |-> "Internal server error"]))

\* ------------------------------------------------------------------ push.py
\* git add . ; git commit ; git push, each with check=True.  The commit is
\* run without capture_output, so e.stderr is None and the test
\* "nothing to commit" in str(e.stderr) is never true.
push_py(env) ==
    IF ~env.add THEN [steps |-> <<"add">>, success |-> FALSE, raised |-> FALSE]
    ELSE IF env.status = "clean" \/ ~env.commit
    THEN [steps |-> <<"add", "commit">>, success |-> FALSE, raised |-> FALSE]
    ELSE IF ~env.push
    THEN [steps |-> <<"add", "commit", "push">>, success |-> FALSE, raised |-> FALSE]
    ELSE [steps |-> <<"add", "commit", "push">>, success |-> TRUE, raised |-> FALSE]

\* ------------------------------------------------ GitManager.push_message
\* run: the outcome each git command would have if it were run (TRUE: exit
\* status 0; FALSE: check=True raises CalledProcessError).
PushMessageRuns ==
    { [add |-> FALSE, commit |-> TRUE, rev_parse |-> TRUE, push |-> TRUE],
      [add |-> TRUE, commit |-> FALSE, rev_parse |-> TRUE, push |-> TRUE],
      [add |-> TRUE, commit |-> TRUE, rev_parse |-> FALSE, push |-> TRUE],
      [add |-> TRUE, commit |-> TRUE, rev_parse |-> TRUE, push |-> FALSE],
      [add |-> TRUE, commit |-> TRUE, rev_parse |-> TRUE, push |-> TRUE] }

\* What push_message leaves: the commands run, the value returned (hash:
\* TRUE for the commit hash, FALSE for None) and whether it raised.
Pushed(steps, hash, raised) == [steps |-> steps, hash |-> hash, raised |-> raised]

\* (faulty variant: the hash read from rev-parse is returned although the
\* push failed)
push_message_unpushed(run) ==
    IF ~run.add THEN Pushed(<<"add">>, FALSE, FALSE)
    ELSE IF ~run.commit THEN Pushed(<<"add", "commit">>, FALSE, FALSE)
    ELSE IF ~run.rev_parse
    THEN Pushed(<<"add", "commit", "rev-parse">>, FALSE, FALSE)
    ELSE Pushed(<<"add", "commit", "rev-parse", "push">>, TRUE, FALSE)

push_message(run) ==
    IF ~run.add THEN Pushed(<<"add">>, FALSE, FALSE)
    ELSE IF ~run.commit THEN Pushed(<<"add", "commit">>, FALSE, FALSE)
    ELSE IF ~run.rev_parse
    THEN Pushed(<<"add", "commit", "rev-parse">>, FALSE, FALSE)
    ELSE IF ~run.push
    THEN Pushed(<<"add", "commit", "rev-parse", "push">>, FALSE, FALSE)
    ELSE Pushed(<<"add", "commit", "rev-parse", "push">>, TRUE, FALSE)

\* ------------------------------------------------- MessageHandler.do_POST
\* A request body:
\*   shape       "no_length"  no Content-Length header (int(None) raises)
\*               "malformed"  json.loads raises
\*               "array"      valid JSON that is not an object
\*               "object"     a JSON object
\*   contentKind "absent" | "string" | "null"   (the key "content")
\*   author      None when the key "author" is absent
PostBodies ==
    {[shape |-> sh, contentKind |-> "absent", content |-> <<>>, author |-> None] :
        sh \in {"no_length", "malformed", "array"}}
    \cup
    {[shape |-> "object", contentKind |-> k, content |-> <<>>, author |-> a] :
        k \in {"absent", "null"}, a \in {None} \cup {Some(x) : x \in Authors}}
    \cup
    {[shape |-> "object", contentKind |-> "string", content |-> c, author |-> a] :
        c \in Contents, a \in {None} \cup {Some(x) : x \in Authors}}

\* What a store method handed back: "id" (a row id), "rows" (a listing),
\* "raise" (an exception), "none" (no store method was called).
NoReturn == [kind |-> "none", id |-> 0, rows |-> <<>>]
Returned(id) == [kind |-> "id", id |-> id, rows |-> <<>>]
Listed(rows) == [kind |-> "rows", id |-> 0, rows |-> rows]
Raised == [kind |-> "raise", id |-> 0, rows |-> <<>>]
Counted(count) == [kind |-> "count", id |-> count, rows |-> <<>>]

\* The handler wrote nothing and ran no git command.
Answered(msgs, seq, sent) ==
    [messages |-> msgs, seq |-> seq, git |-> NoGit, ret |-> NoReturn,
     responses |-> sent,
     events |-> [i \in 1..Len(sent) |-> "respond"]]

\* if not content: (line 340)
\* (faulty variant: the check is missing)
content_accepted_always(content) == TRUE

content_accepted(content) == content # <<>>

do_POST(msgs, seq, path, body, timestamp, env, dbOk, spawnOk) ==
    IF body.shape \in {"no_length", "malformed"}
    THEN Answered(msgs, seq, <<InternalServerError>>)
    ELSE IF path = "/messages"
    THEN IF body.shape = "array" \/ body.contentKind = "null"
         THEN \* data.get / None.strip raise AttributeError
              Answered(msgs, seq, <<InternalServerError>>)
         ELSE LET content == IF body.contentKind = "absent" THEN <<>>
                             ELSE strip(body.content)
                  author == IF body.author = None THEN "Anonymous"
                            ELSE Get(body.author)
              IN  IF ~content_accepted(content)
                  THEN Answered(msgs, seq, <<Response(400, JsonObject(
                           [error |-> "Message content is required"]))>>)
                  ELSE LET saved == save_message(msgs, seq, 1, content,
                                                 timestamp, author, env, dbOk)
                       IN  [messages |-> saved.messages, seq |-> saved.seq,
                            git |-> saved.git,
                            ret |-> IF saved.raised THEN Raised
                                    ELSE Returned(saved.id),
                            responses |->
                              IF saved.raised
                              THEN <<InternalServerError>>
                              ELSE <<Response(200, JsonObject(
                                       [status |-> "success"]))>>,
                            \* save_message returns when push_to_github
                            \* has returned; the response is sent after it
                            events |-> <<"store">> \o saved.git.steps
                                       \o <<"respond">>]
    ELSE IF path = "/push"
    THEN IF ~spawnOk
         THEN Answered(msgs, seq, <<Response(500, JsonObject(
                  [status |-> "error", message |-> "exception"]))>>)
         ELSE LET run == push_py(env)
              IN  [messages |-> msgs, seq |-> seq, git |-> run,
                   ret |-> NoReturn,
                   responses |->
                     IF run.success
                     THEN <<Response(200, JsonObject(
                              [status |-> "success",
                               message |-> "Successfully pushed changes"]))>>
                     ELSE <<Response(500, JsonObject(
                              [status |-> "error",
                               message |-> "Failed to push changes"]))>>,
                   events |-> run.steps \o <<"respond">>]
    ELSE \* no branch of the if/elif chain matches: nothing is sent
         Answered(msgs, seq, <<>>)

\* -------------------------------------------------- MessageHandler.do_GET
\* A query string of GET /messages, as the text the client sent under each
\* key; a key that is absent is None.
GetQueries ==
    { [limit |-> None, offset |-> None, sort |-> None],
      [limit |-> Some("1"), offset |-> Some("0"), sort |-> None],
      [limit |-> Some("1"), offset |-> Some("1"), sort |-> None],
      [limit |-> None, offset |-> None, sort |-> Some("ASC")],
      [limit |-> Some("invalid"), offset |-> None, sort |-> None],
      [limit |-> None, offset |-> Some("invalid"), sort |-> None],
      [limit |-> None, offset |-> None, sort |-> Some("INVALID")] }

NoQuery == [limit |-> None, offset |-> None, sort |-> None]

\* The rows of a table as a list, in rowid order.
RECURSIVE ById(_)
ById(S) ==
    IF S = {} THEN <<>>
    ELSE LET r == CHOOSE x \in S : \A y \in S : x.id <= y.id
         IN  <<r>> \o ById(S \ {r})

\* git add ; git commit ; git push (lines 297-305), each with check=True
push_to_github_route(env) ==
    IF ~env.add THEN [steps |-> <<"add">>, success |-> FALSE, raised |-> FALSE]
    ELSE IF env.status = "clean" \/ ~env.commit
    THEN [steps |-> <<"add", "commit">>, success |-> FALSE, raised |-> FALSE]
    ELSE IF ~env.push
    THEN [steps |-> <<"add", "commit", "push">>, success |-> FALSE, raised |-> FALSE]
    ELSE [steps |-> <<"add", "commit", "push">>, success |-> TRUE, raised |-> FALSE]

\* The possible outcomes of one GET: the responses sent and the git run.
\*   hasBody    the request carries a non-zero Content-Length
\*   fileExists the file to serve can be opened
\* The query string of /messages is never parsed: the route is taken on the
\* path prefix alone and calls get_messages(limit=50).
do_GET(repos, msgs, path, query, hasBody, fileExists, env) ==
    IF path = "/messages"
    THEN LET got == get_messages(repos, msgs, Some(GetLimit), 0, "DESC")
         IN  IF got.raised
             THEN {[responses |-> <<InternalServerError>>, git |-> NoGit,
                    ret |-> Raised, events |-> <<"respond">>]}
             ELSE {[responses |-> <<Response(200, JsonList(rows))>>,
                    git |-> NoGit, ret |-> Listed(rows),
                    events |-> <<"respond">>] :
                     rows \in got.results}
    ELSE IF path = "/"
    THEN {[responses |-> IF fileExists THEN <<Response(200, FileBody)>>
                         ELSE <<Response(404, FileBody)>>,
           git |-> NoGit, ret |-> NoReturn, events |-> <<"respond">>]}
    ELSE IF path = "/repositories"
    THEN LET rows == ById(get_repositories(repos, TRUE))
         IN  {[responses |-> <<Response(200,
                    [kind |-> "object", fields |-> [repositories |-> "items"],
                     items |-> rows])>>,
               git |-> NoGit, ret |-> Listed(rows),
                    events |-> <<"respond">>]}
    ELSE IF path = "/push"
    THEN {[responses |->
             IF ~hasBody
             THEN <<Response(400, JsonObject([error |-> "Empty request body"]))>>
             ELSE \* GitHubManager has no method push: AttributeError
                  <<Response(500, JsonObject([error |-> "Failed to push to GitHub"]))>>,
           git |-> NoGit, ret |-> NoReturn, events |-> <<"respond">>]}
    ELSE IF path = "/push-to-github"
    THEN LET run == push_to_github_route(env)
         IN  {[responses |->
                 IF run.success
                 THEN <<Response(200, JsonObject(
                          [success |-> "true",
                           message |-> "Successfully pushed to GitHub"]))>>
                 ELSE <<Response(500, JsonObject(
                          [success |-> "false",
                           message |-> "Git operation failed"]))>>,
               git |-> run, ret |-> NoReturn,
               events |-> run.steps \o <<"respond">>]}
    ELSE {[responses |-> IF fileExists THEN <<Response(200, FileBody)>>
                         ELSE <<Response(404, FileBody)>>,
           git |-> NoGit, ret |-> NoReturn, events |-> <<"respond">>]}

\* ============================================================ GitHubManager
\* What the GitHub API holds for the repository at https://github.com/o/r:
\* a number of issues without comments (net.held of them) and one discussion
\* without comments.  The instants are on the scale of Clock.  A url is the
\* pair of its collection and number.
Issue(n) ==
    [title |-> "t1", body |-> <<"a">>, created_at |-> 1, updated_at |-> 1,
     login |-> "octocat", html_url |-> <<"o/r/issues", n>>, comments |-> <<>>]

RemoteIssues(held) == [n \in 1..held |-> Issue(n)]

RemoteDiscussions ==
    << [title |-> "d1", body |-> <<"a">>, createdAt |-> 2, login |-> "octocat",
        url |-> <<"o/r/discussions", 1>>, comments |-> <<>>] >>

\* net: what the API does during one call of the client.
\*   issues, comments, graphql
\*              the outcome each request would have if it were made (TRUE:
\*              status 2xx; FALSE: a RequestException from the session or
\*              raise_for_status):  GET .../issues, GET <comments_url>,
\*              POST /graphql
\*   held       the number of issues the repository holds
\*   remaining  X-RateLimit-Remaining of every response
\*   reset      X-RateLimit-Reset of every response, on the scale of the
\*              call's clock, which starts at 0
Net(issues, comments, graphql, held, remaining, reset) ==
    [issues |-> issues, comments |-> comments, graphql |-> graphql,
     held |-> held, remaining |-> remaining, reset |-> reset]

\* One record per distinct course of the fetch of a single issue with
\* quota to spare.
Nets ==
    { Net(TRUE, TRUE, TRUE, 1, 50, 0),
      Net(FALSE, TRUE, TRUE, 1, 50, 0),
      Net(TRUE, FALSE, TRUE, 1, 50, 0),
      Net(TRUE, TRUE, FALSE, 1, 50, 0),
      Net(FALSE, TRUE, FALSE, 1, 50, 0) }

NetOk == Net(TRUE, TRUE, TRUE, 1, 50, 0)

\* repo_url.rstrip('/').split('/'), for the urls of Urls
url_parts(repo_url) ==
    IF repo_url = "default" THEN <<"default">>
    ELSE <<"https:", "", "github.com", "o", "r">>

\* A normalized item: the dictionary appended to messages.
Item(content, timestamp, author, url, type, title, parent_title) ==
    [content |-> content, timestamp |-> timestamp, author |-> author,
     url |-> url, type |-> type, title |-> title, parent_title |-> parent_title]

RECURSIVE CommentItems(_, _, _)
CommentItems(comments, type, parent_title) ==
    IF comments = <<>> THEN <<>>
    ELSE LET c == Head(comments)
         IN  <<Item(c.body, c.created_at, c.login, c.html_url, type,
                    None, Some(parent_title))>>
             \o CommentItems(Tail(comments), type, parent_title)

\* The items of issues whose comments were all read.  A list of several
\* issues is walked as its first half followed by its second half, which
\* is the same walk with a nesting that grows with the logarithm of the
\* length.
RECURSIVE IssueItems(_)
IssueItems(issues) ==
    IF issues = <<>> THEN <<>>
    ELSE IF Len(issues) = 1
    THEN LET issue == Head(issues)
         IN  <<Item(issue.body, issue.created_at, issue.login, issue.html_url,
                    "issue", Some(issue.title), None)>>
             \o CommentItems(issue.comments, "comment", issue.title)
    ELSE LET half == Len(issues) \div 2
         IN  IssueItems(SubSeq(issues, 1, half))
             \o IssueItems(SubSeq(issues, half + 1, Len(issues)))

RECURSIVE DiscussionItems(_)
DiscussionItems(discussions) ==
    IF discussions = <<>> THEN <<>>
    ELSE LET discussion == Head(discussions)
         IN  <<Item(discussion.body, discussion.createdAt, discussion.login,
                    discussion.url, "discussion", Some(discussion.title), None)>>
             \o CommentItems(discussion.comments, "discussion_comment",
                             discussion.title)
             \o DiscussionItems(Tail(discussions))

\* One request sent to the API: which one, when, and whether a response
\* with headers came back.
Request(request, at, answered) ==
    [request |-> request, at |-> at, answered |-> answered]

\* What a path of the client leaves: the exception or the items, the
\* requests it sent in order, and the time on the clock at its end.
Fetched(raised, items, sent, clock) ==
    [raised |-> raised, items |-> items, requests |-> sent, clock |-> clock]

FetchRaised(sent, clock) == Fetched(TRUE, <<>>, sent, clock)

\* ---------------------------------------- GitHubManager._handle_rate_limit
\* The time at which the method returns: it sleeps until reset when fewer
\* than RateLimitLow requests remain and reset lies ahead.
_handle_rate_limit(net, clock) ==
    IF net.remaining < RateLimitLow /\ net.reset - clock > 0
    THEN net.reset
    ELSE clock

\* The page the API answers the listing request with: the issues updated
\* after since, per_page of them at most.
issues_window(held, since) ==
    SelectSeq(RemoteIssues(held),
              LAMBDA i : since = None \/ i.updated_at > Get(since))

issues_page(held, since) ==
    LET window == issues_window(held, since)
    IN  SubSeq(window, 1, Min(Len(window), PerPage))

\* for issue in issues: (lines 58-86).  One comments request per issue, and
\* _handle_rate_limit on its response at the end of the iteration.  The
\* iterations over several issues are those over the first half followed,
\* unless they raised, by those over the second half.
RECURSIVE issue_loop(_, _, _)
issue_loop(issues, net, clock) ==
    IF issues = <<>> THEN Fetched(FALSE, <<>>, <<>>, clock)
    ELSE IF Len(issues) = 1
    THEN LET asked == Request("comments", clock, net.comments)
         IN  IF ~net.comments THEN FetchRaised(<<asked>>, clock)
             ELSE Fetched(FALSE, IssueItems(issues), <<asked>>,
                          _handle_rate_limit(net, clock))
    ELSE LET half == Len(issues) \div 2
             first == issue_loop(SubSeq(issues, 1, half), net, clock)
             second == issue_loop(SubSeq(issues, half + 1, Len(issues)), net,
                                  first.clock)
         IN  IF first.raised THEN first
             ELSE Fetched(second.raised,
                          IF second.raised THEN <<>>
                          ELSE first.items \o second.items,
                          first.requests \o second.requests,
                          second.clock)

\* ------------------------------------- GitHubManager.get_repository_issues
\* "owner, repo = parts[-2:]" raises ValueError when the url has no "/".
\* One listing request with per_page=100 and no page parameter; its
\* response is not handed to _handle_rate_limit.  An exception drops the
\* items collected so far and is re-raised.
get_repository_issues(repo_url, since, net, clock) ==
    IF Len(url_parts(repo_url)) < 2 THEN FetchRaised(<<>>, clock)
    ELSE LET asked == Request("issues", clock, net.issues)
         IN  IF ~net.issues THEN FetchRaised(<<asked>>, clock)
             ELSE LET looped == issue_loop(issues_page(net.held, since), net, clock)
                  IN  Fetched(looped.raised, looped.items,
                              <<asked>> \o looped.requests, looped.clock)

\* -------------------------------- GitHubManager.get_repository_discussions
\* One GraphQL request; it takes no since, and its response is not handed
\* to _handle_rate_limit.
get_repository_discussions(repo_url, net, clock) ==
    IF Len(url_parts(repo_url)) < 2 THEN FetchRaised(<<>>, clock)
    ELSE LET asked == Request("graphql", clock, net.graphql)
         IN  IF ~net.graphql THEN FetchRaised(<<asked>>, clock)
             ELSE Fetched(FALSE, DiscussionItems(RemoteDiscussions),
                          <<asked>>, clock)

\* list.sort(key=timestamp, reverse=True): descending and stable
RECURSIVE sort_reverse(_)
sort_reverse(s) ==
    IF s = <<>> THEN <<>>
    ELSE LET h == Head(s)
             rest == sort_reverse(Tail(s))
         IN  SelectSeq(rest, LAMBDA x : x.timestamp > h.timestamp)
             \o <<h>>
             \o SelectSeq(rest, LAMBDA x : x.timestamp <= h.timestamp)

\* ------------------------------- GitHubManager.get_all_repository_messages
\* Each path runs in its own try/except Exception that prints a warning;
\* the method returns the sorted list and never raises.  The discussions
\* path starts when the issues path has ended.
\* (faulty variant: one try block around both paths, nothing kept on failure)
get_all_repository_messages_all_or_nothing(repo_url, since, net) ==
    LET issues == get_repository_issues(repo_url, since, net, 0)
        discussions == get_repository_discussions(repo_url, net, issues.clock)
    IN  [messages |-> IF issues.raised \/ discussions.raised THEN <<>>
                      ELSE sort_reverse(issues.items \o discussions.items),
         requests |-> issues.requests \o discussions.requests]

get_all_repository_messages(repo_url, since, net) ==
    LET issues == get_repository_issues(repo_url, since, net, 0)
        discussions == get_repository_discussions(repo_url, net, issues.clock)
    IN  [messages |-> sort_reverse(
                          (IF issues.raised THEN <<>> ELSE issues.items)
                          \o (IF discussions.raised THEN <<>> ELSE discussions.items)),
         requests |-> issues.requests \o discussions.requests]

\* ===================================================== store writes of sync
\* The row a normalized item is stored as (columns of table messages).
RemoteMessage(id, repository_id, item) ==
    [id |-> id, repository_id |-> repository_id, content |-> item.content,
     timestamp |-> item.timestamp, author |-> item.author,
     url |-> Some(item.url), message_type |-> item.type,
     parent_title |-> item.parent_title]

\* appendMessages: one INSERT per item in one transaction, all or none.
\* Table messages declares no UNIQUE constraint, and the merge looks up no
\* key before inserting.
appendMessages(msgs, seq, repository_id, items, dbOk) ==
    IF ~dbOk
    THEN [messages |-> msgs, seq |-> seq, raised |-> TRUE, count |-> 0]
    ELSE [messages |-> msgs \cup {RemoteMessage(seq + i, repository_id, items[i]) :
                                    i \in 1..Len(items)},
          seq |-> seq + Len(items), raised |-> FALSE, count |-> Len(items)]

\* setWatermark: UPDATE repositories SET last_synced = ? WHERE id = ?
\* (faulty variant: the UPDATE matches no row)
setWatermark_unset(repos, repository_id, timestamp) == repos

setWatermark(repos, repository_id, timestamp) ==
    {IF r.id = repository_id THEN [r EXCEPT !.last_synced = Some(timestamp)]
     ELSE r : r \in repos}

\* ========================================================== Sync Scheduler
\* One repository's cycle: fetch with the row's last_synced, merge, set the
\* watermark to now; a failure leaves the store as it was.  The client
\* returns a list whatever happened to its requests, so the only failure
\* the cycle can see is that of the merge.
sync_repository(repos, msgs, seq, repository_id, net, dbOk, now) ==
    LET r == CHOOSE x \in repos : x.id = repository_id
        fetched == get_all_repository_messages(r.url, r.last_synced, net)
        items == fetched.messages
        merged == appendMessages(msgs, seq, repository_id, items, dbOk)
    IN  IF merged.raised
        THEN [repositories |-> repos, messages |-> msgs, seq |-> seq,
              failed |-> TRUE, items |-> items, requests |-> fetched.requests]
        ELSE [repositories |-> setWatermark(repos, repository_id, now),
              messages |-> merged.messages, seq |-> merged.seq,
              failed |-> FALSE, items |-> items, requests |-> fetched.requests]

\* The scheduler's position in its tick: the ids read at the start of the
\* tick, the index of the one to sync next, the ids whose cycle failed.
Idle == [list |-> <<>>, pos |-> 1, failed |-> {}]

\* (faulty variant: a failed cycle ends the tick)
tick_after_aborting(t, repository_id, failed) ==
    IF failed
    THEN [t EXCEPT !.pos = Len(t.list) + 1, !.failed = @ \cup {repository_id}]
    ELSE [t EXCEPT !.pos = @ + 1]

tick_after(t, repository_id, failed) ==
    [t EXCEPT !.pos = @ + 1,
              !.failed = IF failed THEN @ \cup {repository_id} ELSE @]

\* ------------------------------------------------------------------ Init
Init ==
    /\ repositories = _init_database({}, 0).repositories
    /\ repoSeq = _init_database({}, 0).seq
    /\ messages = {}
    /\ msgSeq = 0
    /\ call = [op |-> "init"]
    /\ ret = NoReturn
    /\ responses = <<>>
    /\ git = NoGit
    /\ tick = Idle
    /\ requests = <<>>
    /\ events = <<>>

\* ---------------------------------------------------------------- actions
\* A caller of the store registers a repository.
\* (faulty variant: registering a url clears the watermark of its row)
AddRepository_resetting(name, url) ==
    /\ repoSeq < MaxRepoSeq
    /\ \E r \in {add_repository(repositories, repoSeq, name, url)} :
           /\ repositories' = {IF x.url = url THEN [x EXCEPT !.last_synced = None]
                               ELSE x : x \in r.repositories}
           /\ repoSeq' = r.seq
           /\ ret' = Returned(r.id)
    /\ call' = [op |-> "add_repository", name |-> name, url |-> url]
    /\ responses' = <<>>
    /\ git' = NoGit
    /\ requests' = <<>>
    /\ events' = <<>>
    /\ UNCHANGED <<messages, msgSeq, tick>>

AddRepository(name, url) ==
    /\ repoSeq < MaxRepoSeq
    /\ \E r \in {add_repository(repositories, repoSeq, name, url)} :
           /\ repositories' = r.repositories
           /\ repoSeq' = r.seq
           /\ ret' = Returned(r.id)
    /\ call' = [op |-> "add_repository", name |-> name, url |-> url]
    /\ responses' = <<>>
    /\ git' = NoGit
    /\ requests' = <<>>
    /\ events' = <<>>
    /\ UNCHANGED <<messages, msgSeq, tick>>

\* A caller of the store lists messages.
GetMessages(limit, offset, sort_order) ==
    /\ \E got \in {get_messages(repositories, messages, limit, offset, sort_order)} :
           IF got.raised
           THEN ret' = Raised
           ELSE \E rows \in got.results : ret' = Listed(rows)
    /\ call' = [op |-> "get_messages", limit |-> limit, offset |-> offset,
                sort_order |-> sort_order]
    /\ responses' = <<>>
    /\ git' = NoGit
    /\ requests' = <<>>
    /\ events' = <<>>
    /\ UNCHANGED <<repositories, repoSeq, messages, msgSeq, tick>>

\* A caller of the store counts messages.
GetMessageCount(repository_ids, message_types) ==
    /\ ret' = Counted(get_message_count(messages, repository_ids, message_types))
    /\ call' = [op |-> "get_message_count", repository_ids |-> repository_ids,
                message_types |-> message_types]
    /\ responses' = <<>>
    /\ git' = NoGit
    /\ requests' = <<>>
    /\ events' = <<>>
    /\ UNCHANGED <<repositories, repoSeq, messages, msgSeq, tick>>

\* The filter lists the store's callers use for get_message_count.
GetMessageCountArgs ==
    { <<None, None>>, <<Some({1}), None>>, <<Some({2}), Some({"local"})>>,
      <<Some({}), Some({"issue"})>> }

\* DatabaseManager() is constructed outside a request (the start of the
\* server, a script or a test); token: GITHUB_TOKEN is set.
Construct(token) ==
    /\ \E db \in {DatabaseManager(repositories, repoSeq, token)} :
           /\ repositories' = db.repositories
           /\ repoSeq' = db.seq
           /\ ret' = IF db.raised THEN Raised ELSE NoReturn
    /\ call' = [op |-> "DatabaseManager", token |-> token]
    /\ responses' = <<>>
    /\ git' = NoGit
    /\ requests' = <<>>
    /\ events' = <<>>
    /\ UNCHANGED <<messages, msgSeq, tick>>

\* One POST request, handled to its end: the handler constructs its
\* DatabaseManager, then do_POST runs.
\* (faulty variant: the row of a post takes the place of the rows before it)
Post_replacing(path, body, timestamp, env, dbOk, spawnOk) ==
    /\ \E db \in {DatabaseManager(repositories, repoSeq, TRUE)} :
           /\ repositories' = db.repositories
           /\ repoSeq' = db.seq
    /\ \E h \in {do_POST(messages, msgSeq, path, body, timestamp, env, dbOk, spawnOk)} :
           /\ h.seq <= MaxMessages
           /\ messages' = h.messages \ messages
           /\ msgSeq' = h.seq
           /\ responses' = h.responses
           /\ git' = h.git
           /\ ret' = h.ret
           /\ events' = h.events
    /\ call' = [op |-> "do_POST", path |-> path, body |-> body, env |-> env,
                spawnOk |-> spawnOk]
    /\ requests' = <<>>
    /\ UNCHANGED tick

Post(path, body, timestamp, env, dbOk, spawnOk) ==
    /\ \E db \in {DatabaseManager(repositories, repoSeq, TRUE)} :
           /\ repositories' = db.repositories
           /\ repoSeq' = db.seq
    /\ \E h \in {do_POST(messages, msgSeq, path, body, timestamp, env, dbOk, spawnOk)} :
           /\ h.seq <= MaxMessages
           /\ messages' = h.messages
           /\ msgSeq' = h.seq
           /\ responses' = h.responses
           /\ git' = h.git
           /\ ret' = h.ret
           /\ events' = h.events
    /\ call' = [op |-> "do_POST", path |-> path, body |-> body, env |-> env,
                spawnOk |-> spawnOk]
    /\ requests' = <<>>
    /\ UNCHANGED tick

\* One GET request, handled to its end.
Get_(path, query, hasBody, fileExists, env) ==
    /\ \E db \in {DatabaseManager(repositories, repoSeq, TRUE)} :
           /\ repositories' = db.repositories
           /\ repoSeq' = db.seq
           /\ \E h \in do_GET(db.repositories, messages, path, query, hasBody,
                               fileExists, env) :
                  /\ responses' = h.responses
                  /\ git' = h.git
                  /\ ret' = h.ret
                  /\ events' = h.events
    /\ call' = [op |-> "do_GET", path |-> path, query |-> query,
                hasBody |-> hasBody, env |-> env]
    /\ requests' = <<>>
    /\ UNCHANGED <<messages, msgSeq, tick>>

\* A caller of the client fetches a repository's messages.
Fetch(repo_url, since, net) ==
    /\ \E got \in {get_all_repository_messages(repo_url, since, net)} :
           /\ ret' = Listed(got.messages)
           /\ requests' = got.requests
    /\ call' = [op |-> "get_all_repository_messages", url |-> repo_url,
                since |-> since, net |-> net]
    /\ responses' = <<>>
    /\ git' = NoGit
    /\ events' = <<>>
    /\ UNCHANGED <<repositories, repoSeq, messages, msgSeq, tick>>

\* A caller of the client fetches a repository's issue threads.
GetRepositoryIssues(repo_url, since, net) ==
    /\ \E got \in {get_repository_issues(repo_url, since, net, 0)} :
           /\ ret' = IF got.raised THEN Raised ELSE Listed(got.items)
           /\ requests' = got.requests
    /\ call' = [op |-> "get_repository_issues", url |-> repo_url,
                since |-> since, net |-> net]
    /\ responses' = <<>>
    /\ git' = NoGit
    /\ events' = <<>>
    /\ UNCHANGED <<repositories, repoSeq, messages, msgSeq, tick>>

\* A caller of GitManager pushes a message file.
CommitHash == [kind |-> "hash", id |-> 0, rows |-> <<>>]

PushMessage(run) ==
    /\ \E pushed \in {push_message(run)} :
           /\ git' = [steps |-> pushed.steps, success |-> pushed.hash,
                      raised |-> pushed.raised]
           /\ ret' = IF pushed.raised THEN Raised
                     ELSE IF pushed.hash THEN CommitHash ELSE NoReturn
    /\ call' = [op |-> "push_message", run |-> run]
    /\ responses' = <<>>
    /\ requests' = <<>>
    /\ events' = <<>>
    /\ UNCHANGED <<repositories, repoSeq, messages, msgSeq, tick>>

\* What one repository's cycle leaves for the log.
Synced(items) == [kind |-> "synced", id |-> Len(items), rows |-> items]
SyncFailed(items) == [kind |-> "sync_failed", id |-> Len(items), rows |-> items]

\* The scheduler wakes up and reads the active repository list.
TickStart ==
    /\ tick.pos > Len(tick.list)
    /\ LET rows == ById(get_repositories(repositories, TRUE))
       IN  tick' = [list |-> [i \in 1..Len(rows) |-> rows[i].id],
                    pos |-> 1, failed |-> {}]
    /\ call' = [op |-> "tick"]
    /\ ret' = NoReturn
    /\ responses' = <<>>
    /\ git' = NoGit
    /\ requests' = <<>>
    /\ events' = <<>>
    /\ UNCHANGED <<repositories, repoSeq, messages, msgSeq>>

\* The scheduler runs the cycle of the next repository of its tick.
SyncStep(net, dbOk, now) ==
    /\ tick.pos <= Len(tick.list)
    /\ LET repository_id == tick.list[tick.pos]
           r == CHOOSE x \in repositories : x.id = repository_id
       IN  /\ \E s \in {sync_repository(repositories, messages, msgSeq,
                                        repository_id, net, dbOk, now)} :
                  /\ s.seq <= MaxMessages
                  /\ repositories' = s.repositories
                  /\ messages' = s.messages
                  /\ msgSeq' = s.seq
                  /\ ret' = IF s.failed THEN SyncFailed(s.items) ELSE Synced(s.items)
                  /\ tick' = tick_after(tick, repository_id, s.failed)
                  /\ requests' = s.requests
           /\ call' = [op |-> "sync", repository_id |-> repository_id,
                       url |-> r.url, since |-> r.last_synced, net |-> net]
    /\ responses' = <<>>
    /\ git' = NoGit
    /\ events' = <<>>
    /\ UNCHANGED repoSeq

\* The argument lists the store's callers use for get_messages.
GetMessagesArgs ==
    { <<None, 0, "ASC">>, <<None, 0, "DESC">>, <<Some(1), 0, "DESC">>,
      <<Some(1), 1, "ASC">>, <<Some(2), 1, "DESC">>, <<None, 1, "DESC">>,
      <<None, 0, "INVALID">> }

AllOk == [add |-> TRUE, status |-> "dirty", commit |-> TRUE, push |-> TRUE]

\* The runs of add ; commit ; push that differ in what they do.
PushRuns == {e \in GitRuns : e.status \in {"dirty", "clean"}}

\* The body "{}": the push script is started only for a body that parses.
EmptyObject == [shape |-> "object", contentKind |-> "absent", content |-> <<>>,
                author |-> None]

\* The bodies that differ for a handler that never reads the parsed body.
PlainBodies == {b \in PostBodies : b.contentKind = "absent" /\ b.author = None}

\* The bodies POST /messages stores a row for, and those it turns down
\* before reading the clock or running git.
StoredBodies ==
    {b \in PostBodies :
        do_POST({}, 0, "/messages", b, 1, AllOk, TRUE, TRUE).seq = 1}

\* A post that is stored: content "a", no author.
LocalBody == [shape |-> "object", contentKind |-> "string", content |-> <<"a">>,
              author |-> None]

\* The stored posts that differ in the row they leave: each body at each
\* instant for an anonymous post, one instant for a named author.
StoredPosts ==
    {p \in StoredBodies \X Clock : p[1].author = None \/ p[2] = 1}

Next ==
    \/ \E name \in Names, url \in Urls : AddRepository(name, url)
    \/ \E a \in GetMessagesArgs : GetMessages(a[1], a[2], a[3])
    \/ \E a \in GetMessageCountArgs : GetMessageCount(a[1], a[2])
    \/ \E p \in StoredPosts : Post("/messages", p[1], p[2], AllOk, TRUE, TRUE)
    \/ \E env \in GitRuns : Post("/messages", LocalBody, 1, env, TRUE, TRUE)
    \/ \E body \in StoredBodies :
           Post("/messages", body, 1, AllOk, FALSE, TRUE)
    \/ \E body \in PostBodies \ StoredBodies :
           Post("/messages", body, 1, AllOk, TRUE, TRUE)
    \/ \E env \in PushRuns :
           Post("/push", EmptyObject, 1, env, TRUE, TRUE)
    \/ \E body \in PlainBodies :
           Post("/push", body, 1, AllOk, TRUE, FALSE)
    \/ \E body \in PlainBodies :
           Post("/other", body, 1, AllOk, TRUE, TRUE)
    \/ \E query \in GetQueries :
           Get_("/messages", query, FALSE, TRUE, AllOk)
    \/ \E path \in {"/", "/style.css"}, fileExists \in BOOLEAN :
           Get_(path, NoQuery, FALSE, fileExists, AllOk)
    \/ Get_("/repositories", NoQuery, FALSE, TRUE, AllOk)
    \/ \E hasBody \in BOOLEAN :
           Get_("/push", NoQuery, hasBody, TRUE, AllOk)
    \/ \E env \in PushRuns :
           Get_("/push-to-github", NoQuery, FALSE, TRUE, env)
    \/ \E token \in BOOLEAN : Construct(token)

Spec == Init /\ [][Next]_vars

\* The calls of the client that differ in their course: a url without
\* owner and repository, each outcome of the requests, and a since that
\* leaves no issue to list.
FetchArgs ==
    {<<"default", None, NetOk>>}
    \cup {<<"https://github.com/o/r", None, net>> : net \in Nets}
    \cup {<<"https://github.com/o/r", Some(1), net>> :
             net \in {n \in Nets : n.issues /\ n.graphql}}

\* The scheduler running beside the requests of one client: a post, the
\* listings, a manual push and the registration of the GitHub repository.
NextSync ==
    \/ \E url \in Urls : AddRepository("n1", url)
    \/ Post("/messages", LocalBody, 1, AllOk, TRUE, TRUE)
    \/ Post("/push", LocalBody, 1, AllOk, TRUE, TRUE)
    \/ Get_("/messages", NoQuery, FALSE, TRUE, AllOk)
    \/ Get_("/repositories", NoQuery, FALSE, TRUE, AllOk)
    \/ \E a \in FetchArgs : Fetch(a[1], a[2], a[3])
    \/ TickStart
    \/ \E net \in Nets, now \in Clock : SyncStep(net, TRUE, now)
    \/ SyncStep(NetOk, FALSE, 1)

SpecSync == Init /\ [][NextSync]_vars

\* The API as the callers of the client can find it: up to two issues
\* under each outcome of the requests, quota to spare or nearly used up,
\* a reset behind or ahead; and a repository holding a full page of
\* issues, or one issue more.
ClientNets ==
    {Net(n.issues, n.comments, n.graphql, held, remaining, reset) :
        n \in Nets, held \in 0..2, remaining \in {5, 50}, reset \in {0, 2}}
    \cup {Net(TRUE, TRUE, TRUE, held, 50, 0) : held \in {PerPage, PerPage + 1}}

ClientArgs ==
    {<<"default", None, NetOk>>}
    \cup {<<"https://github.com/o/r", None, net>> : net \in ClientNets}
    \cup {<<"https://github.com/o/r", Some(1), net>> :
             net \in {n \in ClientNets : n.held = 1}}

\* The calls in which the listing is no longer than a few issues.
ShortArgs == {a \in ClientArgs : a[3].held <= 2}

\* The callers of the GitHub client and of GitManager.
NextClients ==
    \/ \E a \in ClientArgs : GetRepositoryIssues(a[1], a[2], a[3])
    \/ \E a \in ShortArgs : Fetch(a[1], a[2], a[3])
    \/ \E run \in PushMessageRuns : PushMessage(run)

SpecClients == Init /\ [][NextClients]_vars

\* ================================================================ claims
\* The request handled last was POST /messages, and it was answered 200.
PostAccepted(c, r) ==
    /\ c.op = "do_POST" /\ c.path = "/messages"
    /\ Len(r) = 1 /\ r[1].status = 200

\* The author a POST body asks for (line 338).
PostedAuthor(body) == IF body.author = None THEN "Anonymous" ELSE Get(body.author)

\* C1: registering a url that is already registered returns the id of the
\* row that url was first registered under, and no sequence of registrations
\* leaves two Repository rows with the same url: a registration returns the
\* id of the one row holding its url, leaves every earlier row as it was,
\* and adds nothing when the url was there before.
C1_RegistrationIsIdempotent ==
    [][ /\ repositories \subseteq repositories'
        /\ call'.op = "add_repository" =>
             /\ \A r \in repositories :
                    r.url = call'.url =>
                        ret'.id = r.id /\ repositories' = repositories
             /\ \A r1, r2 \in repositories' : r1.url = r2.url => r1 = r2
             /\ \E r \in repositories' : r.url = call'.url /\ r.id = ret'.id
      ]_vars

\* a url registered a second time, under another name
C1_Witness ==
    /\ call.op = "add_repository" /\ call.url = "https://github.com/o/r"
    /\ \E r \in repositories :
           /\ r.url = "https://github.com/o/r" /\ r.name # call.name
           /\ r.id = ret.id /\ r.id < repoSeq

\* C2: an accepted POST /messages adds exactly one Message row, under a new
\* id and attached to the default repository (id 1, url "default"), whether
\* or not an identical message is stored already; every earlier Message row
\* and every Repository row is left as it was.
C2_PostAppendsOneRow ==
    [][ PostAccepted(call', responses') =>
          /\ \E m \in messages' :
                /\ messages' = messages \cup {m}
                /\ \A o \in messages : o.id # m.id
                /\ m.repository_id = 1
                /\ m.message_type = "local"
                /\ \E r \in repositories' : r.id = 1 /\ r.url = "default"
          /\ Cardinality(messages') = Cardinality(messages) + 1
          /\ repositories' = repositories
      ]_vars

\* the same message stored twice, the second time by the post just handled
C2_Witness ==
    /\ PostAccepted(call, responses)
    /\ \E m1, m2 \in messages :
           /\ m1.id # m2.id /\ m2.id = msgSeq
           /\ m1.content = m2.content /\ m1.author = m2.author
           /\ m1.timestamp = m2.timestamp
    /\ Cardinality(repositories) > 1

\* C3: a POST /messages whose JSON object has no "content" key, or has the
\* empty string under it, is answered with a 4xx status and leaves the
\* Message rows (so their number) as they were.
ContentMissingOrEmpty(c) ==
    /\ c.op = "do_POST" /\ c.path = "/messages"
    /\ c.body.shape = "object"
    /\ \/ c.body.contentKind = "absent"
       \/ c.body.contentKind = "string" /\ c.body.content = <<>>

C3_EmptyContentRejected ==
    [][ ContentMissingOrEmpty(call') =>
          /\ Len(responses') = 1
          /\ responses'[1].status \in 400..499
          /\ messages' = messages
          /\ Cardinality(messages') = Cardinality(messages)
      ]_vars

\* a post without content turned down by a store that holds a message
C3_Witness ==
    /\ ContentMissingOrEmpty(call)
    /\ call.body.contentKind = "absent"
    /\ responses[1].status = 400
    /\ messages # {}

\* The request handled last was GET /messages.
GotMessages(c) == c.op = "do_GET" /\ c.path = "/messages"

\* The messages of the body GET /messages answered with, wrapped or bare.
Body == responses[1].body

\* C4: GET /messages on a store whose only message is a local post by
\* author a answers with exactly one message, and that message carries
\* message_type "local" and author a.
C4_GetShowsLocalPost ==
    (GotMessages(call) /\ Cardinality(messages) = 1) =>
        /\ Len(responses) = 1 /\ responses[1].status = 200
        /\ Len(Body.items) = 1
        /\ \A m \in messages :
              /\ Body.items[1].author = m.author
              /\ "message_type" \in DOMAIN Body.items[1]
              /\ Body.items[1].message_type = "local"

\* C5: the answer to an accepted POST /messages carries the id of the row
\* the post created: the Message row with that id has the posted content
\* and author.
C5_PostAnswersWithId ==
    PostAccepted(call, responses) =>
        /\ "id" \in DOMAIN Body.fields
        /\ \E m \in messages :
              /\ m.id = Body.fields.id
              /\ m.content = call.body.content
              /\ m.author = PostedAuthor(call.body)

\* C6: when a step of the push run by a local message append fails, the
\* Message row written before the push is in the store, save_message
\* returns that row's id to its caller, and the post is answered 200.
PushFailedDuringAppend ==
    /\ call.op = "do_POST" /\ call.path = "/messages"
    /\ git.steps # <<>> /\ ~git.success

C6_PushFailureKeepsRow ==
    PushFailedDuringAppend =>
        /\ ret.kind = "id"
        /\ \E m \in messages :
              /\ m.id = ret.id
              /\ m.content = strip(call.body.content)
              /\ m.author = PostedAuthor(call.body)
        /\ Len(responses) = 1 /\ responses[1].status = 200

\* the push step itself fails, after stage and commit went through
C6_Witness ==
    /\ PushFailedDuringAppend
    /\ git.steps = <<"add", "status", "commit", "push">>
    /\ ret.kind = "id" /\ ret.id = msgSeq

\* The number a query value stands for, as int() reads it; the text
\* "invalid" is no number (int() raises ValueError).
Numerals == [n \in {"0", "1", "2"} |-> CASE n = "0" -> 0 [] n = "1" -> 1 [] n = "2" -> 2]
IsNumber(value) == value # None /\ Get(value) \in DOMAIN Numerals
Number(value) == Numerals[Get(value)]

\* C7: GET /messages with a limit and an offset (offset not beyond the
\* total) answers with min(limit, total - offset) messages and reports
\* has_more = (offset + limit < total).
C7_PageSizeAndHasMore ==
    (/\ GotMessages(call)
     /\ IsNumber(call.query.limit) /\ IsNumber(call.query.offset)
     /\ Number(call.query.offset) <= Cardinality(messages)) =>
        LET limit == Number(call.query.limit)
            offset == Number(call.query.offset)
            total == Cardinality(messages)
        IN  /\ Len(responses) = 1 /\ responses[1].status = 200
            /\ Len(Body.items) = Min(limit, total - offset)
            /\ "pagination" \in DOMAIN Body.fields
            /\ Body.fields.pagination.has_more = (offset + limit < total)

\* C8 as stated: whatever is stored, an unpaged ascending listing followed
\* by an unpaged descending listing of the same store gives the reverse.
Unpaged(c, sort_order) ==
    /\ c.op = "get_messages"
    /\ c.limit = None /\ c.offset = 0 /\ c.sort_order = sort_order

C8_AscDescReversed ==
    [][ (Unpaged(call, "ASC") /\ Unpaged(call', "DESC")) =>
            ret'.rows = Reverse(ret.rows) ]_vars

\* C8: when no two stored messages have the same timestamp, an unpaged
\* ascending listing followed by an unpaged descending listing of the same
\* store gives the reverse sequence.
DistinctTimestamps ==
    \A m1, m2 \in messages : m1.timestamp = m2.timestamp => m1 = m2

C8_AscDescReversedWhenDistinct ==
    [][ (Unpaged(call, "ASC") /\ Unpaged(call', "DESC") /\ DistinctTimestamps) =>
            ret'.rows = Reverse(ret.rows) ]_vars

\* a descending listing of two messages with different timestamps
C8_Witness ==
    /\ Unpaged(call, "DESC") /\ ret.kind = "rows"
    /\ Len(ret.rows) = 2
    /\ ret.rows[1].timestamp > ret.rows[2].timestamp

\* C9: a listing is ordered by timestamp in the requested direction, and
\* two messages with the same timestamp appear in ascending id order.
C9_TiesInIdOrder ==
    (call.op = "get_messages" /\ ret.kind = "rows") =>
        \A i, j \in 1..Len(ret.rows) :
            i < j =>
                /\ IF call.sort_order = "ASC"
                   THEN ret.rows[i].timestamp <= ret.rows[j].timestamp
                   ELSE ret.rows[i].timestamp >= ret.rows[j].timestamp
                /\ ret.rows[i].timestamp = ret.rows[j].timestamp =>
                       ret.rows[i].id < ret.rows[j].id

\* C10: GET /messages without query parameters answers with at most 20
\* messages and reports limit 20 and offset 0 in its pagination data.
C10_DefaultPage ==
    (GotMessages(call) /\ call.query = NoQuery) =>
        /\ Len(responses) = 1 /\ responses[1].status = 200
        /\ Len(Body.items) <= 20
        /\ "pagination" \in DOMAIN Body.fields
        /\ Body.fields.pagination.limit = 20
        /\ Body.fields.pagination.offset = 0

\* C11: GET /messages with a limit or an offset that is no number is
\* answered with a 4xx status, and GET /messages with a sort value other
\* than asc or desc is answered 200 with the messages in descending
\* timestamp order.
C11_InvalidParameters ==
    GotMessages(call) =>
        /\ ( \/ call.query.limit # None /\ ~IsNumber(call.query.limit)
             \/ call.query.offset # None /\ ~IsNumber(call.query.offset) ) =>
               /\ Len(responses) = 1
               /\ responses[1].status \in 400..499
        /\ ( /\ call.query.sort # None
             /\ Get(call.query.sort) \notin {"ASC", "DESC", "asc", "desc"}
             /\ call.query.limit = None /\ call.query.offset = None ) =>
               /\ Len(responses) = 1 /\ responses[1].status = 200
               /\ \A i, j \in 1..Len(Body.items) :
                      i < j => Body.items[i].timestamp >= Body.items[j].timestamp

\* C12: for any filter lists of repository ids and message types, the
\* count get_message_count returns under them is the number of messages
\* the listing without limit and with offset 0 returns under them.
\* get_messages has no filter parameters: the listing a caller obtains
\* under any filters is the listing of every message.
C12_CountMatchesListing ==
    call.op = "get_message_count" =>
        \A rows \in get_messages(repositories, messages, None, 0, "DESC").results :
            ret.id = Len(rows)

\* C13: a Message row, once stored, is neither changed nor removed by any
\* operation: every step leaves each stored row in the store as it was, so
\* the set of stored messages only grows.
C13_MessagesOnlyGrow == [][messages \subseteq messages']_vars

\* a registration and a listing handled by a store that holds two messages
C13_Witness ==
    /\ Cardinality(messages) = 2
    /\ call.op \in {"add_repository", "get_messages", "get_message_count"}

\* Neither retrieval path of the fetch of cycle c raised.
PathsOk(c) ==
    /\ ~get_repository_issues(c.url, c.since, c.net, 0).raised
    /\ ~get_repository_discussions(c.url, c.net, 0).raised

MessagesOf(msgs, repository_id) == {m \in msgs : m.repository_id = repository_id}

WatermarkOf(repos, repository_id) ==
    (CHOOSE r \in repos : r.id = repository_id).last_synced

\* C14: after the first cycle of an active repository in which both
\* retrieval paths succeed and the fetch returns n items (no message of the
\* repository was stored before), the store holds n messages of that
\* repository and its last_synced is not null.
C14_FirstSyncStoresAll ==
    [][ ( /\ call'.op = "sync" /\ ret'.kind = "synced" /\ PathsOk(call')
          /\ MessagesOf(messages, call'.repository_id) = {} ) =>
            /\ Cardinality(MessagesOf(messages', call'.repository_id)) = ret'.id
            /\ ret'.id = Len(ret'.rows)
            /\ WatermarkOf(repositories', call'.repository_id) # None
      ]_vars

\* the first cycle of the GitHub repository stored its issue and discussion
C14_Witness ==
    /\ call.op = "sync" /\ ret.kind = "synced" /\ PathsOk(call)
    /\ call.since = None /\ ret.id = 2
    /\ Cardinality(MessagesOf(messages, call.repository_id)) = 2
    /\ WatermarkOf(repositories, call.repository_id) # None

\* C15: a cycle is run with the watermark its repository has, and when a
\* retrieval path of its fetch fails or its merge fails, the repository's
\* last_synced is left as it was (so the next tick fetches with the same
\* watermark).
C15_FailureKeepsWatermark ==
    [][ call'.op = "sync" =>
          /\ call'.since = WatermarkOf(repositories, call'.repository_id)
          /\ (~PathsOk(call') \/ ret'.kind = "sync_failed") =>
                WatermarkOf(repositories', call'.repository_id)
                    = WatermarkOf(repositories, call'.repository_id)
      ]_vars

\* C16: within a tick every repository read at its start gets its cycle in
\* turn: a cycle, failed or not, leaves the list of the tick as it was and
\* hands over to the next repository of the list, and the cycles that
\* failed are among those already run.
C16_FailureDoesNotStopTick ==
    [][ call'.op = "sync" =>
          /\ tick.pos <= Len(tick.list)
          /\ call'.repository_id = tick.list[tick.pos]
          /\ tick'.list = tick.list
          /\ tick'.pos = tick.pos + 1
          /\ tick'.failed \subseteq {tick.list[i] : i \in 1..tick.pos}
          /\ ret'.kind = "sync_failed" <=> call'.repository_id \in tick'.failed
      ]_vars

\* a repository fetched and merged after the cycle of the repository before
\* it failed in the same tick
C16_Witness ==
    /\ call.op = "sync" /\ ret.kind = "synced" /\ ret.id > 0
    /\ tick.failed # {} /\ call.repository_id \notin tick.failed
    /\ \E m \in messages : m.repository_id = call.repository_id /\ m.url # None

\* C17: the store never holds two messages sourced from the remote with the
\* same (repository_id, url), so a second cycle against an unchanged remote
\* adds no row.
C17_NoDuplicateRemoteMessages ==
    \A m1, m2 \in messages :
        (m1.url # None /\ m1.repository_id = m2.repository_id /\ m1.url = m2.url)
            => m1 = m2

C19_SurvivingPathKept ==
    call.op = "get_all_repository_messages" =>
        LET issues == get_repository_issues(call.url, call.since, call.net, 0)
            discussions == get_repository_discussions(call.url, call.net, 0)
            kept == IF issues.raised THEN discussions.items ELSE issues.items
        IN  (issues.raised # discussions.raised) =>
                /\ ret.kind = "rows"
                /\ \A i \in 1..Len(kept) :
                       \E j \in 1..Len(ret.rows) : ret.rows[j] = kept[i]

\* the issue request failed and the discussion came back
C19_Witness ==
    /\ call.op = "get_all_repository_messages"
    /\ get_repository_issues(call.url, call.since, call.net, 0).raised
    /\ ret.kind = "rows" /\ Len(ret.rows) = 1
    /\ ret.rows[1].type = "discussion"

\* C20: when a retrieval path raises, the caller of
\* get_all_repository_messages gets a value of its own kind, the typed
\* source-fetch-failed condition: no exception, and no plain list such as
\* a fetch that found nothing returns.
C20_FetchFailureIsTyped ==
    (call.op = "get_all_repository_messages" /\ ~PathsOk(call)) =>
        ret.kind = "fetch_failed"

\* The last operation was a call of the client.
ClientCall(c) ==
    c.op \in {"get_repository_issues", "get_all_repository_messages", "sync"}

\* C21: after a response whose remaining quota is below the low-water mark
\* and whose reset time lies ahead of the time it arrived, the client sends
\* no request before that reset time.
C21_NoRequestBeforeReset ==
    ClientCall(call) =>
        \A i, j \in 1..Len(requests) :
            ( /\ i < j
              /\ requests[i].answered
              /\ call.net.remaining < RateLimitLow
              /\ call.net.reset > requests[i].at )
            => requests[j].at >= call.net.reset

\* C22: a call of get_repository_issues that returns has, as its result,
\* the items of every issue the source holds in the requested window, each
\* once, however many issues that is.
C22_EveryIssueOnce ==
    (call.op = "get_repository_issues" /\ ret.kind = "rows") =>
        ret.rows = IssueItems(issues_window(call.net.held, call.since))

\* The last request asked for a manual push and its handler got as far as
\* the push itself: POST /push with a body that parses and a script that
\* starts, GET /push with a body, GET /push-to-github.
ManualPush(c) ==
    \/ /\ c.op = "do_POST" /\ c.path = "/push" /\ c.spawnOk
       /\ c.body.shape \notin {"no_length", "malformed"}
    \/ c.op = "do_GET" /\ c.path = "/push" /\ c.hasBody
    \/ c.op = "do_GET" /\ c.path = "/push-to-github"

\* C23: a manual push request runs stage, commit and push in that order,
\* as far as the first step that fails, and is answered by one response,
\* which reports success exactly when all three steps ran and succeeded.
C23_ManualPushRunsSequence ==
    ManualPush(call) =>
        /\ git.steps # <<>>
        /\ git.steps = SubSeq(<<"add", "commit", "push">>, 1, Len(git.steps))
        /\ Len(responses) = 1
        /\ (responses[1].status = 200)
               <=> (git.steps = <<"add", "commit", "push">> /\ git.success)

GitSteps == {"add", "status", "commit", "push"}

\* C24: the response to a POST /messages is sent without waiting for the
\* push: no git step of the handler comes before its response.
C24_AnswerDoesNotWait ==
    (call.op = "do_POST" /\ call.path = "/messages") =>
        \A i, j \in 1..Len(events) :
            (events[i] \in GitSteps /\ events[j] = "respond") => j < i

\* The command of push_message exits 0 under run.
PushMessageStepOk(run, step) ==
    CASE step = "add" -> run.add
      [] step = "commit" -> run.commit
      [] step = "rev-parse" -> run.rev_parse
      [] step = "push" -> run.push

\* C25: push_message runs add, commit, rev-parse, push in that order, stops
\* at the first step that fails, returns the commit hash exactly when all
\* four succeeded and None otherwise, and raises for no failed step.
C25_PushMessageSequence ==
    call.op = "push_message" =>
        LET all == <<"add", "commit", "rev-parse", "push">>
            n == Len(git.steps)
        IN  /\ ~git.raised /\ ret \in {CommitHash, NoReturn}
            /\ n >= 1 /\ git.steps = SubSeq(all, 1, n)
            /\ \A k \in 1..(n - 1) : PushMessageStepOk(call.run, all[k])
            /\ n < 4 => ~PushMessageStepOk(call.run, all[n])
            /\ (ret = CommitHash)
                   <=> \A k \in 1..4 : PushMessageStepOk(call.run, all[k])

\* the commit failed: rev-parse and push were not run, None came back
C25_Witness ==
    /\ call.op = "push_message" /\ call.run.add /\ ~call.run.commit
    /\ git.steps = <<"add", "commit">> /\ ret = NoReturn

\* The command of DatabaseManager.push_to_github fails under env.
StepFailed(env, step) ==
    CASE step = "add" -> ~env.add
      [] step = "status" -> env.status \in {"fail", "raise"}
      [] step = "commit" -> ~env.commit
      [] step = "push" -> ~env.push

\* C26: DatabaseManager.push_to_github (run by save_message) raises in no
\* outcome; a git step that fails is the last step run and makes the
\* result a failure; and when status reports no changes the result is
\* success with neither commit nor push run.
C26_PushToGithubNeverRaises ==
    (call.op = "do_POST" /\ call.path = "/messages" /\ git.steps # <<>>) =>
        /\ ~git.raised
        /\ \A k \in 1..Len(git.steps) :
               StepFailed(call.env, git.steps[k])
                   => (k = Len(git.steps) /\ ~git.success)
        /\ (call.env.add /\ call.env.status = "clean")
               => (git.success /\ git.steps = <<"add", "status">>)

\* C27: the push script, when its commit step fails because there is
\* nothing to commit, succeeds without running the push; when the commit
\* step fails for another reason it fails.
C27_NothingToCommitIsSuccess ==
    ( /\ call.op = "do_POST" /\ call.path = "/push" /\ call.spawnOk
      /\ call.body.shape \notin {"no_length", "malformed"}
      /\ call.env.add ) =>
        /\ call.env.status = "clean"
               => (git.success /\ git.steps = <<"add", "commit">>)
        /\ (call.env.status = "dirty" /\ ~call.env.commit) => ~git.success

\* C28: every GET or POST request is answered with exactly one response.
C28_OneResponse ==
    call.op \in {"do_GET", "do_POST"} => Len(responses) = 1

\* C29: a step that constructs a DatabaseManager, alone or for a request,
\* keeps every Repository and Message row there was as it was (the
\* construction alone adds none either), and leaves the default repository
\* with id 1 in the store.
C29_ConstructionKeepsRows ==
    [][call'.op \in {"DatabaseManager", "do_GET", "do_POST"} =>
          /\ repositories \subseteq repositories'
          /\ messages \subseteq messages'
          /\ call'.op = "DatabaseManager" =>
                 (repositories' = repositories /\ messages' = messages)
          /\ \E r \in repositories' : r.id = 1 /\ r.url = "default"]_vars

\* a construction on a store holding a registered repository and a message
C29_Witness ==
    /\ call.op = "DatabaseManager"
    /\ \E r \in repositories : r.id # 1
    /\ messages # {}

\* C30: every stored message's repository_id is the id of a stored
\* repository row, and every stored message is among the rows of the
\* unpaginated get_messages.
C30_MessagesBelongToRepositories ==
    /\ \A m \in messages : \E r \in repositories : r.id = m.repository_id
    /\ \A rows \in get_messages(repositories, messages, None, 0, "DESC").results :
           \A m \in messages : \E i \in 1..Len(rows) : rows[i].id = m.id

\* an unpaginated listing of a store with two messages returned both
C30_Witness ==
    /\ call.op = "get_messages" /\ call.limit = None /\ call.offset = 0
    /\ Cardinality(messages) = 2
    /\ ret.kind = "rows" /\ Len(ret.rows) = 2

====
